---- MODULE Spec2Model ----
(***************************************************************************)
(* DocumentService (core/services/document_service.py): streaming upload   *)
(* of documents into the upload directory under a size ceiling, content    *)
(* validation, and the get / delete / list operations on the directory.    *)
(*                                                                         *)
(* Strings that the code takes apart (file names, paths) are sequences of  *)
(* tokens: the separators "_", "." and "/" are tokens of their own, every  *)
(* other token is a non-empty run of characters holding no separator.      *)
(* A file's content is its length and the media type its first bytes       *)
(* sniff to.  Every awaited file-system call is one atomic step; the code  *)
(* between two awaits runs within the step of the await that follows it.   *)
(***************************************************************************)
EXTENDS Integers, Sequences, FiniteSets, TLC

(* ------------------------------ bounds ------------------------------- *)

\* seconds that pass during a run
MaxClock == 1
\* save_document calls begun during a run
MaxSaves == 2
\* reads of one upload that return fewer bytes than asked for
MaxShortReads == 1

(* ------------------------ program constants -------------------------- *)

chunk_size == 1024 * 1024

max_file_size == 10 * 1024 * 1024

RESUME == <<"resume">>

COVER_LETTER == <<"cover", "_", "letter">>

DocumentType == {RESUME, COVER_LETTER}

\* Python's None where a DocumentType is optional
None == <<>>

\* os.path.join(os.getcwd(), "uploads")
upload_dir == <<"/", "app", "/", "uploads">>

allowed_types ==
  { "application/pdf",
    "application/msword",
    "application/vnd.openxmlformats-officedocument.wordprocessingml.document",
    "text/plain" }

(* --------------------------- the callers ----------------------------- *)

Callers == {"c1", "c2"}

\* the values str(uuid.uuid4())[:8] can take: eight hex digits, no "-"
UniqueIds == {"ab12cd34", "9f8e7d6c"}

\* the uploads callers send: the original name and the declared content
\* type (both advisory), the stream's total length and the media type its
\* bytes sniff to
Upload(filename, content_type, len, sig) ==
  [filename |-> filename, content_type |-> content_type,
   len |-> len, sig |-> sig]

\* the original names and declared types
FileMetas ==
  { [filename |-> <<"cv", ".", "pdf">>, content_type |-> "application/pdf"],
    [filename |-> <<"photo">>, content_type |-> "image/jpeg"] }

Streams ==
  { [len |-> 0, sig |-> "application/x-empty"],
    [len |-> 1, sig |-> "application/pdf"],
    [len |-> 1, sig |-> "image/jpeg"],
    [len |-> max_file_size, sig |-> "application/pdf"],
    [len |-> max_file_size + 1, sig |-> "application/pdf"] }

\* every stream under either name and declared type
UploadFiles ==
  { Upload(m.filename, m.content_type, c.len, c.sig) :
      m \in FileMetas, c \in Streams }

\* one upload of each kind: two that are accepted, one over the ceiling,
\* one whose bytes are not of an allowed type
FewUploads ==
  { Upload(<<"cv", ".", "pdf">>, "application/pdf", 1, "application/pdf"),
    Upload(<<"photo">>, "image/jpeg", chunk_size + 1, "application/pdf"),
    Upload(<<"cv", ".", "pdf">>, "application/pdf", max_file_size + 1,
           "application/pdf"),
    Upload(<<"cv", ".", "pdf">>, "application/pdf", 1, "image/jpeg") }

\* the uploads of concurrent callers: one accepted in two chunks, one over
\* the ceiling in its only chunk but one, one of a type not allowed
ConcUploads ==
  { Upload(<<"cv", ".", "pdf">>, "application/pdf", chunk_size + 1,
           "application/pdf"),
    Upload(<<"cv", ".", "pdf">>, "application/pdf", max_file_size + 1,
           "application/pdf"),
    Upload(<<"cv", ".", "pdf">>, "application/pdf", 1, "image/jpeg") }

\* the same bytes under either name and declared type: an accepted stream,
\* one of a type not allowed, one over the ceiling
PairUploads ==
  { Upload(m.filename, m.content_type, c.len, c.sig) :
      m \in FileMetas,
      c \in { [len |-> 1, sig |-> "application/pdf"],
              [len |-> 1, sig |-> "image/jpeg"],
              [len |-> max_file_size + 1, sig |-> "application/pdf"] } }

\* the uploads made under I/O faults: one accepted in two chunks, one over
\* the ceiling, one of a type not allowed
FaultUploads ==
  { Upload(<<"cv", ".", "pdf">>, "application/pdf", chunk_size + 1,
           "application/pdf"),
    Upload(<<"cv", ".", "pdf">>, "application/pdf", max_file_size + 1,
           "application/pdf"),
    Upload(<<"photo">>, "image/jpeg", 1, "image/jpeg") }

\* original names a caller may send: "../../etc/passwd", "x/../y.pdf",
\* "a.b/c", "archive.tar.gz", "cv", "..", ".bashrc", "cv."
OriginalNames ==
  { <<".", ".", "/", ".", ".", "/", "etc", "/", "passwd">>,
    <<"x", "/", ".", ".", "/", "y", ".", "pdf">>,
    <<"a", ".", "b", "/", "c">>,
    <<"archive", ".", "tar", ".", "gz">>,
    <<"cv">>,
    <<".", ".">>,
    <<".", "bashrc">>,
    <<"cv", ".">> }

\* an accepted stream under each of them
NamedUploads ==
  { Upload(n, "application/pdf", 1, "application/pdf") : n \in OriginalNames }

\* the length of a stream that does not end: more bytes than _stream_file
\* reads of any stream
Endless == max_file_size + 2 * chunk_size

\* a stream that does not end, an accepted one and one of a type not allowed
LiveUploads ==
  { Upload(<<"cv", ".", "pdf">>, "application/pdf", Endless,
           "application/pdf"),
    Upload(<<"cv", ".", "pdf">>, "application/pdf", 1, "application/pdf"),
    Upload(<<"photo">>, "image/jpeg", 1, "image/jpeg") }

\* a file in the upload directory that no upload created
ForeignName == <<"notes", ".", "txt">>

\* scenario D: a well-formed stored name that was never issued
MissingName ==
  <<"resume", "_", "20240101", "_", "000000", "_", "ab12cd34", ".", "pdf">>

(* ------------------------- pure functions ---------------------------- *)

Min(a, b) == IF a < b THEN a ELSE b

Max(a, b) == IF a > b THEN a ELSE b

\* str.rfind on tokens: the last index holding c, 0 when there is none
RFind(s, c) ==
  LET I == {i \in 1..Len(s) : s[i] = c}
  IN  IF I = {} THEN 0 ELSE CHOOSE i \in I : \A j \in I : j <= i

\* mutant: the extension is what follows the last dot, wherever it is
SplitExtLastDot(p) ==
  IF RFind(p, ".") = 0 THEN <<>> ELSE SubSeq(p, RFind(p, "."), Len(p))

\* os.path.splitext(p)[1]
SplitExt(p) ==
  LET sepIndex == RFind(p, "/")
      dotIndex == RFind(p, ".")
  IN  IF dotIndex > sepIndex
         /\ \E i \in (sepIndex + 1)..(dotIndex - 1) : p[i] # "."
      THEN SubSeq(p, dotIndex, Len(p))
      ELSE <<>>

\* name.split('_')[0]
RECURSIVE SplitFirst(_)
SplitFirst(s) ==
  IF s = <<>> \/ Head(s) = "_" THEN <<>>
  ELSE <<Head(s)>> \o SplitFirst(Tail(s))

\* os.path.join(a, b)
Join(a, b) ==
  IF b # <<>> /\ Head(b) = "/" THEN b
  ELSE IF a = <<>> \/ a[Len(a)] = "/" THEN a \o b
  ELSE a \o <<"/">> \o b

\* datetime.now().strftime("%Y%m%d_%H%M%S"): the date, and the second of
\* the day as the time token
Strftime(t) == <<"20240101", "_", ToString(t)>>

\* f"{document_type.value}_{timestamp}_{unique_id}{file_extension}"
NewFilename(document_type, timestamp, unique_id, file_extension) ==
  document_type \o <<"_">> \o timestamp \o <<"_">> \o <<unique_id>>
    \o file_extension

(* ------------------------------ state -------------------------------- *)

VARIABLES
  clock,    \* the wall clock when it was last read, in seconds
  fs,       \* the file system's directory entries: path -> inode
  inodes,   \* inode -> content: [len, sig]
  saves,    \* save_document calls begun so far
  pc,       \* per caller: where its call stands ("idle": between calls)
  loc,      \* per caller: the arguments and local variables of its call
            \* (and, as history, the files there were when it began and
            \* the marks of what happened to it: "size" the stream broke
            \* the ceiling, "type" validation refused the file, "early" the
            \* stream ended before its last byte, "kept" the handler's
            \* removal failed)
  ret,      \* the call that completed in the last step and how it ended
            \* (NoRet after a step that completes no call)
  saved,    \* history: path -> what save_document returned for it, until
            \* delete_document removes the path
  calls     \* history, kept by the specifications whose properties compare
            \* calls: the save_document calls that have ended, in that order

vars == <<clock, fs, inodes, saves, pc, loc, ret, saved, calls>>

NoFile == [filename |-> <<>>, content_type |-> "", len |-> 0, sig |-> ""]

NoExc == [type |-> "", msg |-> <<>>]

InitLoc ==
  [ op |-> "none", file |-> NoFile, document_type |-> None,
    filename |-> <<>>, new_filename |-> <<>>, file_path |-> <<>>,
    total_size |-> 0, consumed |-> 0, shorts |-> 0, fd |-> 0,
    exc |-> NoExc, entries |-> {}, documents |-> {},
    before |-> <<>>, marks |-> {} ]

NoRet ==
  [ caller |-> "", op |-> "none", outcome |-> "none", value |-> <<>>,
    call |-> InitLoc ]

\* a call that returned v / returned None / raised e
Returned(p, call, v) ==
  [ caller |-> p, op |-> call.op, outcome |-> "ok", value |-> v,
    call |-> call ]

\* mutant: a missing name is an error
RaisedNotFound(p, call) ==
  [ caller |-> p, op |-> call.op, outcome |-> "raise",
    value |-> [type |-> "FileNotFoundError", msg |-> <<"not found">>],
    call |-> call ]

ReturnedNone(p, call) ==
  [ caller |-> p, op |-> call.op, outcome |-> "none", value |-> <<>>,
    call |-> call ]

Raised(p, call, e) ==
  [ caller |-> p, op |-> call.op, outcome |-> "raise", value |-> e,
    call |-> call ]

(* --------------------------- file system ----------------------------- *)

EmptyContent == [len |-> 0, sig |-> "zeros"]

Exists(path) == path \in DOMAIN fs

\* the files there are: path -> content
Files == [q \in DOMAIN fs |-> inodes[fs[q]]]

\* the inodes some caller holds open
OpenInodes(l) == {l[q].fd : q \in Callers} \ {0}

\* mutant: the removal takes every upload with it
UnlinkedAll(path) ==
  [q \in {r \in DOMAIN fs : Len(r) < Len(path)} |-> fs[q]]

\* mutant: the removal leaves the entry
KeptEntry(path) == fs

\* the directory without path, and the inodes still linked or open
Unlinked(path) == [q \in DOMAIN fs \ {path} |-> fs[q]]

Collected(f, l, ino) ==
  LET live == {f[q] : q \in DOMAIN f} \cup OpenInodes(l)
  IN  [i \in DOMAIN ino \cap live |-> ino[i]]

FreshInode ==
  CHOOSE i \in 1..(Cardinality(DOMAIN inodes) + 1) : i \notin DOMAIN inodes

\* the entries os.scandir(upload_dir) yields: the names of the files that
\* are direct children of the upload directory
Children ==
  { SubSeq(q, Len(upload_dir) + 2, Len(q)) :
      q \in { r \in DOMAIN fs :
                /\ Len(r) > Len(upload_dir) + 1
                /\ SubSeq(r, 1, Len(upload_dir) + 1) = upload_dir \o <<"/">>
                /\ \A i \in (Len(upload_dir) + 2)..Len(r) : r[i] # "/" } }

\* magic.Magic(mime=True).from_file on a file of content c
Magic(c) ==
  IF c.len = 0 THEN "application/x-empty"
  ELSE IF c.sig = "zeros" THEN "application/octet-stream"
  ELSE c.sig

FileNotFound == [type |-> "FileNotFoundError",
                 msg |-> <<"[Errno 2] No such file or directory">>]

ValueError(m) == [type |-> "ValueError", msg |-> <<m>>]

\* Exception(f"{prefix}{str(e)}")
Wrapped(prefix, e) == [type |-> "Exception", msg |-> <<prefix>> \o e.msg]

DocumentInfo(filename, original, file_path, document_type, size, ctype) ==
  [ filename |-> filename, original_filename |-> original,
    file_path |-> file_path, document_type |-> document_type,
    size |-> size, content_type |-> ctype ]

(* ------------------------------ Init --------------------------------- *)

\* the directory holds one file that no upload created, of a type that
\* uploads are refused for
Init ==
  /\ clock = 0
  /\ fs = (Join(upload_dir, ForeignName) :> 1)
  /\ inodes = (1 :> [len |-> 1, sig |-> "image/jpeg"])
  /\ saves = 0
  /\ pc = [p \in Callers |-> "idle"]
  /\ loc = [p \in Callers |-> InitLoc]
  /\ ret = NoRet
  /\ saved = <<>>
  /\ calls = <<>>

\* a file of the application that is not in the upload directory
OutsidePath == <<"/", "app", "/", "main", ".", "py">>

\* the same directory, on a file system that holds OutsidePath as well
InitOutside ==
  /\ clock = 0
  /\ fs = (Join(upload_dir, ForeignName) :> 1) @@ (OutsidePath :> 2)
  /\ inodes = (1 :> [len |-> 1, sig |-> "image/jpeg"])
                 @@ (2 :> [len |-> 1, sig |-> "text/plain"])
  /\ saves = 0
  /\ pc = [p \in Callers |-> "idle"]
  /\ loc = [p \in Callers |-> InitLoc]
  /\ ret = NoRet
  /\ saved = <<>>
  /\ calls = <<>>

(* -------------------------- save_document ---------------------------- *)

\* mutant: the ceiling is taken a chunk too high
ExceedsLimitByChunk(total_size, n) ==
  total_size + n > max_file_size + chunk_size

\* mutant: the check looks at what is written, not at the chunk in hand
ExceedsLimitBeforeChunk(total_size, n) == total_size > max_file_size

\* _stream_file's size check on a chunk of n bytes
ExceedsLimit(total_size, n) == total_size + n > max_file_size

\* mutant: a read returns up to two chunks
FullReadDouble(remaining) == {Min(2 * chunk_size, remaining)}

\* what file.read(chunk_size) returns with `remaining` bytes left in the
\* stream when every read is served in full: the whole chunk, the rest of
\* the stream at its end
FullRead(remaining) == {Min(chunk_size, remaining)}

\* what it can return when the stream delivers its bytes as it likes: the
\* above, or, a bounded number of times, a single byte
AnyRead(remaining, shorts) ==
  FullRead(remaining)
    \cup (IF remaining > 1 /\ shorts < MaxShortReads THEN {1} ELSE {})

\* out_file.write of n bytes of a stream sniffing to sig, at offset off
Written(c, off, n, sig) ==
  [len |-> Max(c.len, off + n), sig |-> IF off = 0 THEN sig ELSE c.sig]

\* mutant: the extension of the stored name is trusted
ValidateByExtension(path) == Exists(path) /\ path[Len(path)] = "pdf"

\* _validate_file_type: the sniffed type is in the allow-list; an inspection
\* that fails (no file at the path) is caught and answers False
ValidateFileType(path) ==
  IF Exists(path) THEN Magic(inodes[fs[path]]) \in allowed_types ELSE FALSE

\* lines 72-76, and aiofiles.open(file_path, 'wb'): the file is created, or
\* truncated if the path exists.  datetime.now() reads the clock, which has
\* not gone back since it was last read.
SaveBegin(p, files) ==
  /\ pc[p] = "idle"
  /\ saves < MaxSaves
  /\ \E document_type \in DocumentType, file \in files,
        unique_id \in UniqueIds, now \in clock..MaxClock :
       LET timestamp == Strftime(now)
           file_extension == SplitExt(file.filename)
           new_filename ==
             NewFilename(document_type, timestamp, unique_id, file_extension)
           file_path == Join(upload_dir, new_filename)
           ino == IF Exists(file_path) THEN fs[file_path] ELSE FreshInode
       IN  /\ fs' = [q \in DOMAIN fs \cup {file_path} |->
                       IF q = file_path THEN ino ELSE fs[q]]
           /\ inodes' = [i \in DOMAIN inodes \cup {ino} |->
                           IF i = ino THEN EmptyContent ELSE inodes[i]]
           /\ loc' = [loc EXCEPT ![p] =
                        [InitLoc EXCEPT !.op = "save", !.file = file,
                           !.document_type = document_type,
                           !.new_filename = new_filename,
                           !.file_path = file_path, !.fd = ino,
                           !.before = Files]]
           /\ clock' = now
  /\ pc' = [pc EXCEPT ![p] = "stream"]
  /\ ret' = NoRet
  /\ saves' = saves + 1
  /\ UNCHANGED saved

\* one turn of _stream_file's loop (lines 49-56) with a chunk of n bytes
\* that fits: read, check, write
StreamWrite(p, n) ==
  /\ pc[p] = "stream"
  /\ n > 0
  /\ ~ExceedsLimit(loc[p].total_size, n)
  /\ inodes' = [inodes EXCEPT ![loc[p].fd] =
                  Written(@, loc[p].total_size, n, loc[p].file.sig)]
  /\ loc' = [loc EXCEPT ![p].total_size = @ + n,
                        ![p].consumed = @ + n,
                        ![p].shorts =
                          IF n \in FullRead(loc[p].file.len - loc[p].consumed)
                          THEN @ ELSE @ + 1]
  /\ ret' = NoRet
  /\ UNCHANGED <<clock, saves, fs, pc, saved>>

\* the turn whose chunk of n bytes breaks the ceiling (lines 52-54): the
\* file is removed and ValueError raised; leaving the `async with` closes
\* the file.  A remove that finds no file raises in its place.
StreamOverflow(p, n) ==
  /\ pc[p] = "stream"
  /\ n > 0
  /\ ExceedsLimit(loc[p].total_size, n)
  /\ LET l == [loc EXCEPT ![p].consumed = @ + n, ![p].fd = 0,
                          ![p].marks = @ \cup {"size"},
                          ![p].exc =
                            IF Exists(loc[p].file_path)
                            THEN ValueError("File size exceeds maximum limit")
                            ELSE FileNotFound]
         f == Unlinked(loc[p].file_path)
     IN  /\ fs' = f
         /\ inodes' = Collected(f, l, inodes)
         /\ loc' = l
  /\ pc' = [pc EXCEPT ![p] = "except"]
  /\ ret' = NoRet
  /\ UNCHANGED <<clock, saves, saved>>

\* mutant: validation is reached from any turn of the loop, the file open
StreamEndOpen(p) ==
  /\ pc[p] = "stream"
  /\ pc' = [pc EXCEPT ![p] = "validate"]
  /\ ret' = NoRet
  /\ UNCHANGED <<clock, saves, fs, inodes, loc, saved>>

\* the read that returns no bytes (lines 49-51, 57): the loop ends, the file
\* is closed and _stream_file returns total_size
StreamEnd(p) ==
  /\ pc[p] = "stream"
  /\ loc[p].file.len - loc[p].consumed = 0
  /\ LET l == [loc EXCEPT ![p].fd = 0]
     IN  /\ loc' = l
         /\ inodes' = Collected(fs, l, inodes)
  /\ pc' = [pc EXCEPT ![p] = "validate"]
  /\ ret' = NoRet
  /\ UNCHANGED <<clock, saves, fs, saved>>

\* lines 82, 86-93: the file passes validation and the descriptor is returned
SaveReturn(p) ==
  /\ pc[p] = "validate"
  /\ ValidateFileType(loc[p].file_path)
  /\ ret' =
               Returned(p, loc[p], DocumentInfo(loc[p].new_filename,
                                        loc[p].file.filename,
                                        loc[p].file_path,
                                        loc[p].document_type,
                                        loc[p].total_size,
                                        loc[p].file.content_type))
  /\ saved' = [q \in DOMAIN saved \cup {loc[p].file_path} |->
                 IF q = loc[p].file_path
                 THEN [document_type |-> loc[p].document_type,
                       size |-> loc[p].total_size]
                 ELSE saved[q]]
  /\ pc' = [pc EXCEPT ![p] = "idle"]
  /\ loc' = [loc EXCEPT ![p] = InitLoc]
  /\ UNCHANGED <<clock, saves, fs, inodes>>

\* lines 82-84: validation fails; the file is removed and ValueError raised.
\* The mark "unread" records that the validator found no file to inspect
\* (from_file raised, lines 41-42).
SaveReject(p) ==
  /\ pc[p] = "validate"
  /\ ~ValidateFileType(loc[p].file_path)
  /\ loc' = IF Exists(loc[p].file_path) THEN loc
            ELSE [loc EXCEPT ![p].marks = @ \cup {"unread"}]
  /\ pc' = [pc EXCEPT ![p] = "reject"]
  /\ ret' = NoRet
  /\ UNCHANGED <<clock, saves, fs, inodes, saved>>

SaveRemove(p) ==
  /\ pc[p] = "reject"
  /\ LET f == Unlinked(loc[p].file_path)
     IN  /\ fs' = f
         /\ inodes' = Collected(f, loc, inodes)
  /\ loc' = [loc EXCEPT ![p].marks = @ \cup {"type"},
                        ![p].exc =
                          IF Exists(loc[p].file_path)
                          THEN ValueError("Invalid file type")
                          ELSE FileNotFound]
  /\ pc' = [pc EXCEPT ![p] = "except"]
  /\ ret' = NoRet
  /\ UNCHANGED <<clock, saves, saved>>

\* lines 94-101: the handler removes file_path, swallowing a failure of the
\* removal, and raises Exception("Error saving document: ...")
SaveExcept(p) ==
  /\ pc[p] = "except"
  /\ LET f == Unlinked(loc[p].file_path)
     IN  /\ fs' = f
         /\ inodes' = Collected(f, loc, inodes)
  /\ ret' =
               Raised(p, loc[p], Wrapped("Error saving document: ", loc[p].exc))
  /\ pc' = [pc EXCEPT ![p] = "idle"]
  /\ loc' = [loc EXCEPT ![p] = InitLoc]
  /\ UNCHANGED <<clock, saves, saved>>

(* ----------------- save_document: faults of the I/O ------------------ *)

\* the errors of file-system calls and of the inbound stream
IOFault == [type |-> "OSError", msg |-> <<"[Errno 5] Input/output error">>]

NoSpace ==
  [type |-> "OSError", msg |-> <<"[Errno 28] No space left on device">>]

PermissionDenied ==
  [type |-> "PermissionError", msg |-> <<"[Errno 13] Permission denied">>]

\* lines 72-76, and aiofiles.open(file_path, 'wb') raises: no file is made
SaveOpenFault(p, files) ==
  /\ pc[p] = "idle"
  /\ saves < MaxSaves
  /\ \E document_type \in DocumentType, file \in files,
        unique_id \in UniqueIds, now \in clock..MaxClock :
       LET new_filename ==
             NewFilename(document_type, Strftime(now), unique_id,
                         SplitExt(file.filename))
       IN  /\ loc' = [loc EXCEPT ![p] =
                        [InitLoc EXCEPT !.op = "save", !.file = file,
                           !.document_type = document_type,
                           !.new_filename = new_filename,
                           !.file_path = Join(upload_dir, new_filename),
                           !.exc = PermissionDenied,
                           !.before = Files]]
           /\ clock' = now
  /\ pc' = [pc EXCEPT ![p] = "except"]
  /\ ret' = NoRet
  /\ saves' = saves + 1
  /\ UNCHANGED <<fs, inodes, saved>>

\* line 49 raises with bytes of the stream still to come: leaving the
\* `async with` closes the file
StreamReadFault(p) ==
  /\ pc[p] = "stream"
  /\ loc[p].file.len - loc[p].consumed > 0
  /\ LET l == [loc EXCEPT ![p].fd = 0, ![p].exc = IOFault]
     IN  /\ loc' = l
         /\ inodes' = Collected(fs, l, inodes)
  /\ pc' = [pc EXCEPT ![p] = "except"]
  /\ ret' = NoRet
  /\ UNCHANGED <<clock, saves, fs, saved>>

\* line 55 raises on a chunk of n bytes that fits: none of the chunk or
\* all but its last byte has reached the file, which is then closed
StreamWriteFault(p, n) ==
  /\ pc[p] = "stream"
  /\ n > 0
  /\ ~ExceedsLimit(loc[p].total_size, n)
  /\ \E k \in {0, n - 1} :
       LET l == [loc EXCEPT ![p].consumed = @ + n, ![p].fd = 0,
                            ![p].exc = NoSpace]
           w == IF k = 0 THEN inodes
                ELSE [inodes EXCEPT ![loc[p].fd] =
                        Written(@, loc[p].total_size, k, loc[p].file.sig)]
       IN  /\ loc' = l
           /\ inodes' = Collected(fs, l, w)
  /\ pc' = [pc EXCEPT ![p] = "except"]
  /\ ret' = NoRet
  /\ UNCHANGED <<clock, saves, fs, saved>>

\* lines 52-53 where the removal raises: the file stays, and the removal's
\* error is raised in place of ValueError
StreamOverflowFault(p, n) ==
  /\ pc[p] = "stream"
  /\ n > 0
  /\ ExceedsLimit(loc[p].total_size, n)
  /\ LET l == [loc EXCEPT ![p].consumed = @ + n, ![p].fd = 0,
                          ![p].marks = @ \cup {"size"},
                          ![p].exc = PermissionDenied]
     IN  /\ loc' = l
         /\ inodes' = Collected(fs, l, inodes)
  /\ pc' = [pc EXCEPT ![p] = "except"]
  /\ ret' = NoRet
  /\ UNCHANGED <<clock, saves, fs, saved>>

\* lines 82-83 where the removal raises: the file stays, and the removal's
\* error is raised in place of ValueError
SaveRemoveFault(p) ==
  /\ pc[p] = "reject"
  /\ loc' = [loc EXCEPT ![p].marks = @ \cup {"type"},
                        ![p].exc = PermissionDenied]
  /\ pc' = [pc EXCEPT ![p] = "except"]
  /\ ret' = NoRet
  /\ UNCHANGED <<clock, saves, fs, inodes, saved>>

\* lines 94-101 where the handler's removal raises on a file that is there:
\* the error is swallowed, the file stays
SaveExceptFault(p) ==
  /\ pc[p] = "except"
  /\ Exists(loc[p].file_path)
  /\ ret' = Raised(p, [loc[p] EXCEPT !.marks = @ \cup {"kept"}],
                   Wrapped("Error saving document: ", loc[p].exc))
  /\ pc' = [pc EXCEPT ![p] = "idle"]
  /\ loc' = [loc EXCEPT ![p] = InitLoc]
  /\ UNCHANGED <<clock, saves, fs, inodes, saved>>

\* line 49 returns no bytes with bytes of the stream still to come (the
\* sender gave up or closed the stream): lines 50-51 end the loop as at
\* the end of the stream
StreamAbandon(p) ==
  /\ pc[p] = "stream"
  /\ loc[p].file.len - loc[p].consumed > 0
  /\ LET l == [loc EXCEPT ![p].fd = 0, ![p].marks = @ \cup {"early"}]
     IN  /\ loc' = l
         /\ inodes' = Collected(fs, l, inodes)
  /\ pc' = [pc EXCEPT ![p] = "validate"]
  /\ ret' = NoRet
  /\ UNCHANGED <<clock, saves, fs, saved>>

(* ----------------------- get / delete / list -------------------------- *)

\* the names callers ask for: what the directory holds, the name the call
\* that just completed was about, a name that was never stored, and the
\* absolute path of a file that is elsewhere
QueryNames ==
  Children \cup {MissingName}
    \cup (IF ret.op = "save" THEN {ret.call.new_filename} ELSE {})
    \cup (IF ret.op \in {"get", "delete"} THEN {ret.call.filename} ELSE {})
    \cup (DOMAIN fs \ {Join(upload_dir, e) : e \in Children})

\* DocumentType(name.split('_')[0]) raises ValueError
InvalidType(name) == SplitFirst(name) \notin DocumentType

\* get_document's category (lines 116-120): an invalid prefix defaults to
\* RESUME
GetType(name) == IF InvalidType(name) THEN RESUME ELSE SplitFirst(name)

\* list_documents' choice for an entry (lines 156-162): skipped when the
\* prefix is invalid, or when a filter is given and differs
Skipped(name, document_type) ==
  \/ InvalidType(name)
  \/ (document_type # None /\ SplitFirst(name) # document_type)

\* lines 108-110: the path does not exist and None is returned
GetMissing(p) ==
  /\ pc[p] = "idle"
  /\ \E filename \in QueryNames :
       /\ ~Exists(Join(upload_dir, filename))
       /\ ret' =
                    ReturnedNone(p, [InitLoc EXCEPT !.op = "get",
                                       !.filename = filename,
                                       !.file_path =
                                         Join(upload_dir, filename)])
  /\ UNCHANGED <<clock, saves, fs, inodes, pc, loc, saved>>

\* lines 108-109: the path exists
GetBegin(p) ==
  /\ pc[p] = "idle"
  /\ \E filename \in QueryNames :
       /\ Exists(Join(upload_dir, filename))
       /\ loc' = [loc EXCEPT ![p] =
                    [InitLoc EXCEPT !.op = "get", !.filename = filename,
                       !.file_path = Join(upload_dir, filename)]]
  /\ pc' = [pc EXCEPT ![p] = "stat"]
  /\ ret' = NoRet
  /\ UNCHANGED <<clock, saves, fs, inodes, saved>>

\* lines 113-132: stat, then the descriptor; a stat that finds no file
\* raises, and the handler raises Exception("Error retrieving document: ...")
GetStat(p) ==
  /\ pc[p] = "stat"
  /\ ret' =
               IF Exists(loc[p].file_path)
               THEN Returned(p, loc[p], DocumentInfo(loc[p].filename,
                                             loc[p].filename,
                                             loc[p].file_path,
                                             GetType(loc[p].filename),
                                             inodes[fs[loc[p].file_path]].len,
                                             "application/octet-stream"))
               ELSE Raised(p, loc[p], Wrapped("Error retrieving document: ",
                                      FileNotFound))
  /\ pc' = [pc EXCEPT ![p] = "idle"]
  /\ loc' = [loc EXCEPT ![p] = InitLoc]
  /\ UNCHANGED <<clock, saves, fs, inodes, saved>>

\* lines 139-140, 143: the path does not exist and False is returned
DeleteMissing(p) ==
  /\ pc[p] = "idle"
  /\ \E filename \in QueryNames :
       /\ ~Exists(Join(upload_dir, filename))
       /\ ret' =
                    Returned(p, [InitLoc EXCEPT !.op = "delete",
                                   !.filename = filename,
                                   !.file_path = Join(upload_dir, filename)],
                             FALSE)
  /\ UNCHANGED <<clock, saves, fs, inodes, pc, loc, saved>>

\* lines 139-140: the path exists
DeleteBegin(p) ==
  /\ pc[p] = "idle"
  /\ \E filename \in QueryNames :
       /\ Exists(Join(upload_dir, filename))
       /\ loc' = [loc EXCEPT ![p] =
                    [InitLoc EXCEPT !.op = "delete", !.filename = filename,
                       !.file_path = Join(upload_dir, filename)]]
  /\ pc' = [pc EXCEPT ![p] = "remove"]
  /\ ret' = NoRet
  /\ UNCHANGED <<clock, saves, fs, inodes, saved>>

\* lines 141-145: remove, then True; a remove that finds no file raises,
\* and the handler raises Exception("Error deleting document: ...")
DeleteRemove(p) ==
  /\ pc[p] = "remove"
  /\ LET f == Unlinked(loc[p].file_path)
     IN  /\ fs' = f
         /\ inodes' = Collected(f, loc, inodes)
  /\ ret' =
               IF Exists(loc[p].file_path)
               THEN Returned(p, loc[p], TRUE)
               ELSE Raised(p, loc[p], Wrapped("Error deleting document: ",
                                      FileNotFound))
  /\ saved' = [q \in DOMAIN saved \ {loc[p].file_path} |-> saved[q]]
  /\ pc' = [pc EXCEPT ![p] = "idle"]
  /\ loc' = [loc EXCEPT ![p] = InitLoc]
  /\ UNCHANGED <<clock, saves>>

\* DocumentListResponse(documents, len(documents), document_type)
DocumentListResponse(documents, document_type) ==
  [ documents |-> documents, total_count |-> Cardinality(documents),
    document_type |-> document_type ]

\* line 153 on a directory whose entries are all skipped (or that has
\* none): no stat is awaited and the listing is returned
ListNothing(p) ==
  /\ pc[p] = "idle"
  /\ \E document_type \in DocumentType \cup {None} :
       /\ \A e \in Children : Skipped(e, document_type)
       /\ ret' =
                    Returned(p, [InitLoc EXCEPT !.op = "list",
                                   !.document_type = document_type],
                             DocumentListResponse({}, document_type))
  /\ UNCHANGED <<clock, saves, fs, inodes, pc, loc, saved>>

\* line 153: the directory is scanned; the entries to stat are those not
\* skipped
ListBegin(p) ==
  /\ pc[p] = "idle"
  /\ \E document_type \in DocumentType \cup {None} :
       /\ \E e \in Children : ~Skipped(e, document_type)
       /\ loc' = [loc EXCEPT ![p] =
                    [InitLoc EXCEPT !.op = "list",
                       !.document_type = document_type,
                       !.entries =
                         {e \in Children : ~Skipped(e, document_type)}]]
  /\ pc' = [pc EXCEPT ![p] = "scan"]
  /\ ret' = NoRet
  /\ UNCHANGED <<clock, saves, fs, inodes, saved>>

\* lines 164-182 for one entry: stat and append; after the last entry the
\* listing is returned.  A stat that finds no file raises, and the handler
\* raises Exception("Error listing documents: ...")
ListEntry(p) ==
  /\ pc[p] = "scan"
  /\ \E e \in loc[p].entries :
       LET path == Join(upload_dir, e)
           rest == loc[p].entries \ {e}
           docs == loc[p].documents \cup
                     {DocumentInfo(e, e, path, SplitFirst(e),
                                   inodes[fs[path]].len,
                                   "application/octet-stream")}
       IN  IF ~Exists(path)
           THEN /\ ret' =
                             Raised(p, loc[p], Wrapped("Error listing documents: ",
                                               FileNotFound))
                /\ pc' = [pc EXCEPT ![p] = "idle"]
                /\ loc' = [loc EXCEPT ![p] = InitLoc]
           ELSE IF rest = {}
           THEN /\ ret' =
                             Returned(p, loc[p], DocumentListResponse(
                                           docs, loc[p].document_type))
                /\ pc' = [pc EXCEPT ![p] = "idle"]
                /\ loc' = [loc EXCEPT ![p] = InitLoc]
           ELSE /\ loc' = [loc EXCEPT ![p].entries = rest,
                                      ![p].documents = docs]
                /\ ret' = NoRet
                /\ UNCHANGED pc
  /\ UNCHANGED <<clock, saves, fs, inodes, saved>>

(* -------------------- api/document_routes.py -------------------------- *)

\* HTTPException(status_code, detail); its str() is "<status_code>: <detail>"
HTTPException(status_code, detail) ==
  [ type |-> "HTTPException", status_code |-> status_code,
    detail |-> detail, msg |-> <<ToString(status_code), ": ">> \o detail ]

\* the response FastAPI sends for a returned value / a raised HTTPException
Success(body) == [status_code |-> 200, detail |-> <<>>, body |-> body]

Failure(e) ==
  [status_code |-> e.status_code, detail |-> e.detail, body |-> <<>>]

\* upload_document's own allow-list, for the declared content type
declared_allowed_types ==
  { "application/pdf",
    "application/msword",
    "application/vnd.openxmlformats-officedocument.wordprocessingml.document",
    "text/plain" }

\* upload_document's handlers (lines 54-63) for an error e raised in its
\* try block: ValueError gives 400, any other Exception 500
UploadHandled(e) ==
  IF e.type = "ValueError"
  THEN Failure(HTTPException(400, e.msg))
  ELSE Failure(HTTPException(500, <<"Error uploading document: ">> \o e.msg))

\* upload_document's response when save_document ended as r
upload_document(r) ==
  IF r.outcome = "ok" THEN Success(r.value) ELSE UploadHandled(r.value)

\* upload_document on a declared content type outside its allow-list
\* (lines 40-44): HTTPException(400) is raised inside the try block, and
\* save_document is not called
UploadRefuse(p, files) ==
  /\ pc[p] = "idle"
  /\ \E file \in files :
       /\ file.content_type \notin declared_allowed_types
       /\ ret' =
            [ caller |-> p, op |-> "upload", outcome |-> "http",
              value |-> UploadHandled(HTTPException(400,
                          <<"Invalid file type. Allowed types: ",
                            "PDF, DOC, DOCX, TXT">>)),
              call |-> [InitLoc EXCEPT !.op = "upload", !.file = file] ]
  /\ UNCHANGED <<clock, saves, fs, inodes, pc, loc, saved>>

\* list_documents' response (lines 73-79) when the service call ended as r
list_documents(r) ==
  IF r.outcome = "ok" THEN Success(r.value)
  ELSE Failure(HTTPException(500,
                 <<"Error listing documents: ">> \o r.value.msg))

\* get_document's response (lines 89-101) when the service call ended as
\* r: the HTTPException(404) for None is raised inside the try block
get_document(r) ==
  LET e == IF r.outcome = "none"
           THEN HTTPException(404, <<"Document not found">>)
           ELSE r.value
  IN  IF r.outcome = "ok" THEN Success(r.value)
      ELSE Failure(HTTPException(500,
                     <<"Error retrieving document: ">> \o e.msg))

\* delete_document's response (lines 112-124) when the service call ended
\* as r: the HTTPException(404) for False is raised inside the try block
delete_document(r) ==
  LET e == IF r.outcome = "ok"
           THEN HTTPException(404, <<"Document not found">>)
           ELSE r.value
  IN  IF r.outcome = "ok" /\ r.value = TRUE THEN Success(<<"success">>)
      ELSE Failure(HTTPException(500,
                     <<"Error deleting document: ">> \o e.msg))

\* the response to the request that ended in the last step
Response ==
  CASE ret.op = "upload" -> ret.value
    [] ret.op = "save"   -> upload_document(ret)
    [] ret.op = "list"   -> list_documents(ret)
    [] ret.op = "get"    -> get_document(ret)
    [] ret.op = "delete" -> delete_document(ret)
    [] OTHER             -> Success(<<>>)

(* -------------------------- specifications --------------------------- *)

\* history: the save_document call that ended as r: its path and upload,
\* the descriptor's size or the error raised, and the error it had caught
Ended(r) ==
  [ file_path |-> r.call.file_path, file |-> r.call.file,
    outcome |-> r.outcome,
    size |-> IF r.outcome = "ok" THEN r.value.size ELSE 0,
    error |-> IF r.outcome = "raise" THEN r.value ELSE NoExc,
    cause |-> r.call.exc ]

\* a step of a specification that keeps the history of calls / keeps none
History ==
  calls' = IF ret'.op = "save" THEN Append(calls, Ended(ret')) ELSE calls

NoHistory == UNCHANGED calls

\* the steps of save_document on an upload drawn from files, every read
\* served in full
SaveStep(p, files) ==
  \/ SaveBegin(p, files)
  \/ \E n \in FullRead(loc[p].file.len - loc[p].consumed) : StreamWrite(p, n)
  \/ \E n \in FullRead(loc[p].file.len - loc[p].consumed) :
       StreamOverflow(p, n)
  \/ StreamEnd(p)
  \/ SaveReturn(p)
  \/ SaveReject(p)
  \/ SaveRemove(p)
  \/ SaveExcept(p)

StoreStep(p) ==
  \/ GetMissing(p)
  \/ GetBegin(p)
  \/ GetStat(p)
  \/ DeleteMissing(p)
  \/ DeleteBegin(p)
  \/ DeleteRemove(p)
  \/ ListNothing(p)
  \/ ListBegin(p)
  \/ ListEntry(p)

\* one caller, one call at a time
Next == (SaveStep("c1", FewUploads) \/ StoreStep("c1")) /\ NoHistory

Spec == Init /\ [][Next]_vars

\* c1 uploads and c2 reads and deletes: their calls interleave at every
\* awaited file-system call
NextConc == (SaveStep("c1", ConcUploads) \/ StoreStep("c2")) /\ NoHistory

SpecConc == Init /\ [][NextConc]_vars

\* concurrent uploads and nothing else
NextSaves == (\E p \in Callers : SaveStep(p, ConcUploads)) /\ History

SpecSaves == Init /\ [][NextSaves]_vars

\* the steps of save_document when the stream delivers its bytes as it likes
SaveStepAnyRead(p, files) ==
  \/ SaveBegin(p, files)
  \/ \E n \in AnyRead(loc[p].file.len - loc[p].consumed, loc[p].shorts) :
       StreamWrite(p, n)
  \/ \E n \in AnyRead(loc[p].file.len - loc[p].consumed, loc[p].shorts) :
       StreamOverflow(p, n)
  \/ StreamEnd(p)
  \/ SaveReturn(p)
  \/ SaveReject(p)
  \/ SaveRemove(p)
  \/ SaveExcept(p)

\* one caller's uploads, the stream split into chunks as it likes
NextSave == SaveStepAnyRead("c1", UploadFiles) /\ NoHistory

SpecSave == Init /\ [][NextSave]_vars

\* one caller's uploads of the same bytes under different names and
\* declared types, the calls on record
NextPairs == SaveStep("c1", PairUploads) /\ History

SpecPairs == Init /\ [][NextPairs]_vars

\* the steps of save_document in which a file-system call or the inbound
\* stream fails
FaultStep(p, files) ==
  \/ SaveOpenFault(p, files)
  \/ StreamReadFault(p)
  \/ \E n \in FullRead(loc[p].file.len - loc[p].consumed) :
       StreamWriteFault(p, n)
  \/ \E n \in FullRead(loc[p].file.len - loc[p].consumed) :
       StreamOverflowFault(p, n)
  \/ SaveRemoveFault(p)
  \/ SaveExceptFault(p)
  \/ StreamAbandon(p)

\* one caller's uploads under I/O faults
NextFault ==
  (SaveStep("c1", FaultUploads) \/ FaultStep("c1", FaultUploads))
    /\ NoHistory

SpecFault == Init /\ [][NextFault]_vars

\* the same, the calls on record
NextFaults ==
  (SaveStep("c1", FaultUploads) \/ FaultStep("c1", FaultUploads)) /\ History

SpecFaults == Init /\ [][NextFaults]_vars

\* one caller's accepted uploads under any original name
NextNames ==
  /\ \/ SaveBegin("c1", NamedUploads)
     \/ \E n \in FullRead(loc["c1"].file.len - loc["c1"].consumed) :
          StreamWrite("c1", n)
     \/ StreamEnd("c1")
     \/ SaveReturn("c1")
  /\ NoHistory

SpecNames == Init /\ [][NextNames]_vars

\* one caller's uploads, of a stream that does not end among them; every
\* awaited call returns, so a call under way takes its next step
NextLive == SaveStepAnyRead("c1", LiveUploads) /\ NoHistory

SpecLive == Init /\ [][NextLive]_vars /\ WF_vars(NextLive)

\* two callers read and delete the files there are
NextRace == (StoreStep("c1") \/ StoreStep("c2")) /\ NoHistory

SpecRace == InitOutside /\ [][NextRace]_vars

\* one caller, on a file system that holds a file outside the directory
SpecOutside == InitOutside /\ [][Next]_vars

\* one client's requests to the routes: an upload reaches save_document
\* when its declared content type is in the route's allow-list
NextRoutes ==
  /\ \/ UploadRefuse("c1", FewUploads)
     \/ SaveStep("c1", {f \in FewUploads :
                          f.content_type \in declared_allowed_types})
     \/ StoreStep("c1")
  /\ NoHistory

SpecRoutes == Init /\ [][NextRoutes]_vars

(* ------------------------------ claims ------------------------------- *)

\* the files of the upload directory other than path are those of f
SameElsewhere(f, path) ==
  /\ DOMAIN fs \ {path} = DOMAIN f \ {path}
  /\ \A q \in DOMAIN f \ {path} : Files[q] = f[q]

\* the part of C1 that holds: such an upload succeeds, the descriptor's
\* size is the stream's length, the file at the generated path holds the
\* whole stream and no other file of the directory has changed
SaveStored ==
  (/\ ret.op = "save"
   /\ ret.call.file.len <= max_file_size
   /\ ret.call.file.sig \in allowed_types)
  => /\ ret.outcome = "ok"
     /\ ret.value.size = ret.call.file.len
     /\ ret.value.filename = ret.call.new_filename
     /\ ret.value.file_path = Join(upload_dir, ret.value.filename)
     /\ Exists(ret.value.file_path)
     /\ Files[ret.value.file_path] =
          [len |-> ret.call.file.len, sig |-> ret.call.file.sig]
     /\ SameElsewhere(ret.call.before, ret.value.file_path)

\* C1: an upload of at most max_file_size bytes (max_file_size included)
\* whose bytes sniff to an allowed type succeeds: save_document returns a
\* descriptor whose size is the stream's length, and leaves exactly one new
\* file, at the generated path: a file that was not there when the call
\* began, holding the whole stream, every other file as it was.
C1_SaveLeavesNewFile ==
  /\ SaveStored
  /\ (ret.op = "save" /\ ret.outcome = "ok")
       => ret.value.file_path \notin DOMAIN ret.call.before

\* C2: an upload of more than max_file_size bytes, however its reads split
\* it, fails with the size-limit error (the error raised carries the stream
\* writer's message), and no file is at the generated path once the call
\* has ended.
C2_OversizeFails ==
  (ret.op = "save" /\ ret.call.file.len > max_file_size)
  => /\ ret.outcome = "raise"
     /\ ret.value.msg =
          <<"Error saving document: ", "File size exceeds maximum limit">>
     /\ ~Exists(ret.call.file_path)

C2_Witness ==
  /\ ret.op = "save"
  /\ ret.outcome = "raise"
  /\ ret.call.file.len = max_file_size + 1
  /\ ret.call.shorts > 0
  /\ ret.call.total_size > 0
  /\ ret.call.total_size < max_file_size

\* C3: an upload written in full whose bytes sniff to a type outside the
\* allow-list fails with the invalid-file-type error, whatever its declared
\* content type and the extension of its name, and no file is at the
\* generated path once the call has ended.
C3_DisallowedFails ==
  (/\ ret.op = "save"
   /\ ret.call.file.len <= max_file_size
   /\ Magic([len |-> ret.call.file.len, sig |-> ret.call.file.sig])
        \notin allowed_types)
  => /\ ret.outcome = "raise"
     /\ ret.value.msg = <<"Error saving document: ", "Invalid file type">>
     /\ ~Exists(ret.call.file_path)

C3_Witness ==
  /\ ret.op = "save"
  /\ ret.outcome = "raise"
  /\ ret.call.file.sig = "image/jpeg"
  /\ ret.call.file.content_type = "application/pdf"
  /\ SplitExt(ret.call.file.filename) = <<".", "pdf">>
  /\ ret.call.total_size = ret.call.file.len

\* C4: a get_document of a name save_document returned, not deleted since,
\* returns a descriptor with the document_type and the size of the
\* descriptor save_document returned, for resume and for cover_letter.
C4_RoundTrip ==
  (ret.op = "get" /\ ret.call.file_path \in DOMAIN saved)
  => /\ ret.outcome = "ok"
     /\ ret.value.document_type = saved[ret.call.file_path].document_type
     /\ ret.value.size = saved[ret.call.file_path].size

\* the saved documents a listing filtered by document_type is to hold
Listed(document_type) ==
  {q \in DOMAIN saved :
     document_type = None \/ saved[q].document_type = document_type}

\* C5: list_documents returns exactly the documents saved under the
\* category asked for (all of them without a filter) and not deleted, with
\* their category and size; files of an unknown prefix are left out, and
\* total_count is the number of descriptors returned.
C5_ListExact ==
  ret.op = "list"
  => /\ ret.outcome = "ok"
     /\ {<<d.file_path, d.document_type, d.size>> : d \in ret.value.documents}
          = {<<q, saved[q].document_type, saved[q].size>> :
               q \in Listed(ret.call.document_type)}
     /\ \A d \in ret.value.documents : d.filename # ForeignName
     /\ ret.value.total_count = Cardinality(ret.value.documents)

\* C6: a delete_document call never raises; it returns True exactly when
\* the file was there, and the file is not there afterwards; a second call
\* on the name of a call that returned True returns False.
C6_DeleteIdempotent ==
  [][ret'.op = "delete"
     => /\ ret'.outcome = "ok"
        /\ ret'.value = Exists(ret'.call.file_path)
        /\ ret'.call.file_path \notin DOMAIN fs'
        /\ (ret.op = "delete" /\ ret.value = TRUE
               /\ ret'.call.filename = ret.call.filename)
             => ret'.value = FALSE]_vars

C6_Witness ==
  /\ ret.op = "delete"
  /\ ret.outcome = "ok"
  /\ ret.value = FALSE
  /\ ret.call.filename = ForeignName

\* the paths of the uploads whose save_document call has not ended
InProgress ==
  {loc[q].file_path :
     q \in {r \in Callers : pc[r] \in {"stream", "validate", "reject",
                                       "except"}}}

\* C7: get_document and list_documents never return a descriptor for a
\* file whose save_document call is still streaming, validating or
\* rejecting it.
C7_ObservedAfterValidation ==
  /\ (ret.op = "get" /\ ret.outcome = "ok")
       => ret.value.file_path \notin InProgress
  /\ (ret.op = "list" /\ ret.outcome = "ok")
       => \A d \in ret.value.documents : d.file_path \notin InProgress

\* C8: when save_document returns a descriptor, a file is at the
\* descriptor's file_path and its length is the descriptor's size.
C8_DescriptorHasFile ==
  (ret.op = "save" /\ ret.outcome = "ok")
  => /\ Exists(ret.value.file_path)
     /\ Files[ret.value.file_path].len = ret.value.size

\* C9: in every state no file of the upload directory is longer than
\* max_file_size, and no descriptor save_document, get_document or
\* list_documents returns has a size above max_file_size.
C9_SizeCeiling ==
  /\ \A q \in DOMAIN fs : Files[q].len <= max_file_size
  /\ (ret.op \in {"save", "get"} /\ ret.outcome = "ok")
       => ret.value.size <= max_file_size
  /\ (ret.op = "list" /\ ret.outcome = "ok")
       => \A d \in ret.value.documents : d.size <= max_file_size

C9_Witness ==
  /\ pc["c1"] = "stream"
  /\ loc["c1"].file.len > max_file_size
  /\ Exists(loc["c1"].file_path)
  /\ Files[loc["c1"].file_path].len = max_file_size

\* C10: save_document never returns a stored name that an earlier call
\* returned and that is still stored.
C10_NamesUnique ==
  [][(ret'.op = "save" /\ ret'.outcome = "ok")
     => ret'.value.file_path \notin DOMAIN saved]_vars

\* C11: two save_document calls given the same bytes end alike whatever the
\* declared content types and original names: both return a descriptor of
\* the same size or both raise the same error; bytes of a JPEG signature
\* are rejected also when declared application/pdf.
C11_BytesDecide ==
  /\ \A i, j \in DOMAIN calls :
       (/\ calls[i].file.len = calls[j].file.len
        /\ calls[i].file.sig = calls[j].file.sig)
       => /\ calls[i].outcome = calls[j].outcome
          /\ calls[i].size = calls[j].size
          /\ calls[i].error = calls[j].error
  /\ \A i \in DOMAIN calls :
       calls[i].file.sig = "image/jpeg"
       => /\ calls[i].outcome = "raise"
          /\ calls[i].error.msg =
               <<"Error saving document: ", "Invalid file type">>

C11_Witness ==
  \E i, j \in DOMAIN calls :
    /\ calls[i].file.sig = "image/jpeg"
    /\ calls[j].file.sig = "image/jpeg"
    /\ calls[i].file.content_type = "application/pdf"
    /\ calls[j].file.content_type = "image/jpeg"
    /\ SplitExt(calls[i].file.filename) # SplitExt(calls[j].file.filename)
    /\ calls[i].outcome = "raise"
    /\ calls[j].outcome = "raise"

\* the calls on record that raised after their input was refused (too long
\* or of a type not allowed) / after a fault of the I/O
Refused == {i \in DOMAIN calls : calls[i].cause.type = "ValueError"}

Faulted ==
  {i \in DOMAIN calls : calls[i].cause.type \in {"OSError", "PermissionError"}}

\* C12: the error save_document raises for a refused input (stream too
\* long, type not allowed) differs in type from the error it raises after
\* a storage fault.
C12_TypedErrors ==
  \A i \in Refused, j \in Faulted : calls[i].error.type # calls[j].error.type

\* C13: after a save_document call that failed at whatever stage (open,
\* read, write, size check, validation), no file is at the path generated
\* for the call.
C13_NoFileAfterFailure ==
  (ret.op = "save" /\ ret.outcome = "raise") => ~Exists(ret.call.file_path)

\* C13, amended: ... no file is at the path generated for the call, unless
\* the removal in the handler (line 98) itself failed.
C13_NoFileUnlessRemovalFailed ==
  (ret.op = "save" /\ ret.outcome = "raise" /\ "kept" \notin ret.call.marks)
  => ~Exists(ret.call.file_path)

C13_Witness ==
  /\ ret.op = "save"
  /\ ret.outcome = "raise"
  /\ ret.call.exc = NoSpace
  /\ ret.call.total_size > 0
  /\ "kept" \notin ret.call.marks
  /\ ~Exists(ret.call.file_path)

\* C14: a save_document call that fails (stream too long, type not
\* allowed) leaves the upload directory as it was when the call began:
\* the same files with the same content.
C14_FailedSaveLeavesStore ==
  (ret.op = "save" /\ ret.outcome = "raise") => Files = ret.call.before

\* C17: a save_document call whose stream ended before its last byte does
\* not return a descriptor, and the partial file is removed.
C17_AbandonedFails ==
  (ret.op = "save" /\ "early" \in ret.call.marks)
  => /\ ret.outcome = "raise"
     /\ ~Exists(ret.call.file_path)

\* C18: when the stream broke the ceiling or validation refused the file,
\* the error save_document raises is the size-limit or the invalid-type
\* error, also when a removal of the file failed.
C18_PrimaryErrorKept ==
  /\ (ret.op = "save" /\ "size" \in ret.call.marks)
       => /\ ret.outcome = "raise"
          /\ ret.value.msg = <<"Error saving document: ",
                               "File size exceeds maximum limit">>
  /\ (ret.op = "save" /\ "type" \in ret.call.marks)
       => /\ ret.outcome = "raise"
          /\ ret.value.msg = <<"Error saving document: ", "Invalid file type">>

\* C15: get_document returns None exactly when no file is at the name, and
\* otherwise a descriptor of that path whose size is the file's length at
\* the time of the call, whatever the file's type; it never raises.
C15_GetReflectsFile ==
  [][ret'.op = "get"
     => IF Exists(ret'.call.file_path)
        THEN /\ ret'.outcome = "ok"
             /\ ret'.value.file_path = ret'.call.file_path
             /\ ret'.value.size = Files[ret'.call.file_path].len
        ELSE ret'.outcome = "none"]_vars

C15_Witness ==
  /\ ret.op = "get"
  /\ ret.outcome = "ok"
  /\ Exists(ret.value.file_path)
  /\ Magic(Files[ret.value.file_path]) \notin allowed_types
  /\ ret.value.size = Files[ret.value.file_path].len

\* a name holds a path separator / two dots in a row
HasSeparator(name) == \E i \in 1..Len(name) : name[i] = "/"

HasDotDot(name) ==
  \E i \in 1..(Len(name) - 1) : name[i] = "." /\ name[i + 1] = "."

\* os.path.dirname, os.path.basename
Dirname(path) == SubSeq(path, 1, RFind(path, "/") - 1)

Basename(path) == SubSeq(path, RFind(path, "/") + 1, Len(path))

\* C16: whatever the category and the original name, the stored name
\* save_document generates holds no path separator and no ".." and the
\* path built from it is a direct child of the upload directory.
C16_StoredNameSafe ==
  \A p \in Callers :
    loc[p].op = "save"
    => /\ ~HasSeparator(loc[p].new_filename)
       /\ ~HasDotDot(loc[p].new_filename)
       /\ Dirname(loc[p].file_path) = upload_dir
       /\ Basename(loc[p].file_path) = loc[p].new_filename

C16_Witness ==
  /\ loc["c1"].op = "save"
  /\ loc["c1"].file.filename = <<"a", ".", "b", "/", "c">>
  /\ loc["c1"].document_type = COVER_LETTER
  /\ Exists(loc["c1"].file_path)

\* C19: within a save_document call, validation is reached only from the
\* stream writer's loop when the whole stream has been read and written
\* and the file is closed; it runs on a closed file holding the whole
\* stream, and never after the stream writer has raised.
C19_ValidatedAfterStream ==
  [][\A p \in Callers :
       /\ (pc'[p] = "validate" /\ pc[p] # "validate")
            => /\ pc[p] = "stream"
               /\ loc[p].consumed = loc[p].file.len
               /\ loc[p].total_size = loc[p].file.len
       /\ pc[p] = "validate"
            => /\ loc[p].fd = 0
               /\ loc[p].exc = NoExc
               /\ Exists(loc[p].file_path)
               /\ Files[loc[p].file_path].len = loc[p].file.len
       /\ (pc'[p] = "reject" /\ pc[p] # "reject") => pc[p] = "validate"
       /\ pc[p] = "except" => pc'[p] \in {"except", "idle"}]_vars

C19_Witness ==
  /\ pc["c1"] = "validate"
  /\ loc["c1"].file.len = max_file_size
  /\ loc["c1"].shorts > 0
  /\ loc["c1"].fd = 0
  /\ Files[loc["c1"].file_path].len = max_file_size

\* the save_document calls, ended or under way, that generated path
Users(path) ==
  Cardinality({i \in DOMAIN calls : calls[i].file_path = path})
    + Cardinality({q \in Callers :
                     pc[q] # "idle" /\ loc[q].op = "save"
                       /\ loc[q].file_path = path})

\* how a save_document call on file and path ends when it runs alone (C1,
\* C2 and C3 under SpecSave): r is that end
AsAlone(r) ==
  IF r.call.file.len > max_file_size
  THEN /\ r.outcome = "raise"
       /\ r.value.msg = <<"Error saving document: ",
                          "File size exceeds maximum limit">>
       /\ ~Exists(r.call.file_path)
  ELSE IF Magic([len |-> r.call.file.len, sig |-> r.call.file.sig])
            \notin allowed_types
  THEN /\ r.outcome = "raise"
       /\ r.value.msg = <<"Error saving document: ", "Invalid file type">>
       /\ ~Exists(r.call.file_path)
  ELSE /\ r.outcome = "ok"
       /\ r.value.size = r.call.file.len
       /\ Exists(r.call.file_path)
       /\ Files[r.call.file_path] =
            [len |-> r.call.file.len, sig |-> r.call.file.sig]

\* C20: a save_document call whose generated name no other call has
\* generated ends, under every interleaving with the other calls, as it
\* ends alone; while it streams its file holds what it has written, and
\* once it has returned its file keeps the whole stream whatever the
\* other calls write or roll back.
C20_DistinctNamesApart ==
  /\ (ret.op = "save" /\ Users(ret.call.file_path) = 1) => AsAlone(ret)
  /\ \A p \in Callers :
       (pc[p] = "stream" /\ Users(loc[p].file_path) = 1)
       => /\ Exists(loc[p].file_path)
          /\ fs[loc[p].file_path] = loc[p].fd
          /\ Files[loc[p].file_path].len = loc[p].total_size
  /\ \A i \in DOMAIN calls :
       (calls[i].outcome = "ok" /\ Users(calls[i].file_path) = 1)
       => /\ Exists(calls[i].file_path)
          /\ Files[calls[i].file_path] =
               [len |-> calls[i].file.len, sig |-> calls[i].file.sig]

C20_Witness ==
  /\ pc["c1"] = "stream"
  /\ loc["c1"].total_size > 0
  /\ pc["c2"] = "except"
  /\ "size" \in loc["c2"].marks
  /\ loc["c1"].file_path # loc["c2"].file_path
  /\ Exists(loc["c1"].file_path)

\* C21: every save_document call ends, returning or raising, also on a
\* stream that does not end: the call never reads past the ceiling by more
\* than a chunk.
C21_SaveTerminates ==
  /\ [](\A p \in Callers : loc[p].consumed < Endless)
  /\ \A p \in Callers : (pc[p] # "idle") ~> (pc[p] = "idle")

C21_Witness ==
  /\ ret.op = "save"
  /\ ret.outcome = "raise"
  /\ ret.call.file.len = Endless
  /\ ret.call.consumed < Endless
  /\ ret.call.shorts > 0

\* C30: _stream_file has read at most max_file_size + chunk_size bytes and
\* written at most max_file_size; once the size check has failed it reads
\* and writes nothing more.
C30_BoundedConsumption ==
  [][\A p \in Callers :
       /\ loc[p].consumed <= max_file_size + chunk_size
       /\ loc[p].total_size <= max_file_size
       /\ ("size" \in loc[p].marks /\ pc'[p] # "idle")
            => /\ loc'[p].consumed = loc[p].consumed
               /\ loc'[p].total_size = loc[p].total_size
               /\ pc'[p] = "except"]_vars

C30_Witness ==
  /\ pc["c1"] = "except"
  /\ "size" \in loc["c1"].marks
  /\ loc["c1"].consumed = max_file_size + chunk_size
  /\ loc["c1"].total_size = max_file_size

\* C22: the upload route answers 400 to a refused input: a declared
\* content type outside the allow-list, a stream over the ceiling, bytes of
\* a type not allowed.
C22_UploadClientErrors ==
  /\ ret.op = "upload" => Response.status_code = 400
  /\ (ret.op = "save" /\ ret.call.marks \cap {"size", "type"} # {})
       => Response.status_code = 400

\* C23: the get and delete routes answer 404 'Document not found' for a
\* name that is not in the store.
C23_MissingIs404 ==
  /\ (ret.op = "get" /\ ret.outcome = "none")
       => /\ Response.status_code = 404
          /\ Response.detail = <<"Document not found">>
  /\ (ret.op = "delete" /\ ret.outcome = "ok" /\ ret.value = FALSE)
       => /\ Response.status_code = 404
          /\ Response.detail = <<"Document not found">>

\* C24: of two concurrent delete_document calls on one stored name neither
\* raises; a call returns true exactly when it removed the file.
C24_DeletesNeverRaise ==
  [][ret'.op = "delete"
     => /\ ret'.outcome = "ok"
        /\ ret'.value = (/\ ret'.call.file_path \in DOMAIN fs
                         /\ ret'.call.file_path \notin DOMAIN fs')]_vars

\* C25: when the validator finds no file to inspect it answers false, and
\* save_document fails as for a content type that is not allowed, with no
\* file left at the path.
C25_UnreadIsRejected ==
  (ret.op = "save" /\ "unread" \in ret.call.marks)
  => /\ ret.outcome = "raise"
     /\ ret.value.msg = <<"Error saving document: ", "Invalid file type">>
     /\ ~Exists(ret.call.file_path)

\* C26: get_document reports a file under a category exactly when
\* list_documents does: the category is the one of the name's prefix, and a
\* file whose prefix is no category gets no descriptor from either.
C26_GetAgreesWithList ==
  /\ (ret.op = "get" /\ ret.outcome = "ok")
       => /\ ~Skipped(ret.call.filename, None)
          /\ ret.value.document_type = SplitFirst(ret.call.filename)
  /\ (ret.op = "list" /\ ret.outcome = "ok")
       => \A d \in ret.value.documents :
            /\ ~InvalidType(d.filename)
            /\ d.document_type = GetType(d.filename)

\* C27: whatever the filename argument, get_document describes and
\* delete_document removes only direct children of the upload directory.
C27_OnlyDirectChildren ==
  [][/\ \A q \in DOMAIN fs \ DOMAIN fs' : Dirname(q) = upload_dir
     /\ (ret'.op = "get" /\ ret'.outcome = "ok")
          => Dirname(ret'.value.file_path) = upload_dir]_vars

\* C28: every file that was in the store when a save_document call began
\* is there with the same content when the call ends, whether it returns
\* or raises.
C28_SaveKeepsExisting ==
  ret.op = "save"
  => \A q \in DOMAIN ret.call.before :
       Exists(q) /\ Files[q] = ret.call.before[q]

\* C29: list_documents returns a listing, and does not raise, when files
\* vanish while it enumerates.
C29_ListNeverRaises ==
  ret.op = "list" => ret.outcome = "ok"

====
